---- MODULE Spec2Model ----
(***************************************************************************)
(* A model of the DeepSeek orchestrator's command mediation pipeline       *)
(* (src/deepseek_orchestrator.py): extraction, validation, approval,       *)
(* execution and audit logging, and the trigger-file handler that feeds    *)
(* it.  Text is modelled as sequences of one-character strings, so that    *)
(* substring tests, prefix stripping and splitting are computed as the     *)
(* code computes them.                                                     *)
(***************************************************************************)
EXTENDS Integers, Sequences, FiniteSets, TLC

(***************************************************************************)
(* Text helpers: Python's str operations on sequences of characters.       *)
(***************************************************************************)
NL == "\n"
TAB == "\t"

\* the characters str.strip() and str.split() treat as white space
Whitespace == {" ", TAB, NL}

\* str.startswith(prefix)
StartsWith(s, prefix) ==
    /\ Len(prefix) <= Len(s)
    /\ SubSeq(s, 1, Len(prefix)) = prefix

\* pattern in s  (substring test)
Contains(s, pattern) ==
    \E i \in 0..(Len(s) - Len(pattern)) :
        SubSeq(s, i + 1, i + Len(pattern)) = pattern

\* s[n:]
DropFirst(s, n) == SubSeq(s, n + 1, Len(s))

RECURSIVE LStrip(_)
LStrip(s) ==
    IF s # <<>> /\ Head(s) \in Whitespace THEN LStrip(Tail(s)) ELSE s

RECURSIVE RStrip(_)
RStrip(s) ==
    IF s # <<>> /\ s[Len(s)] \in Whitespace
    THEN RStrip(SubSeq(s, 1, Len(s) - 1))
    ELSE s

\* str.strip()
Strip(s) == RStrip(LStrip(s))

\* the first white-space delimited token of s: s.split()[0] if s.split() else ""
RECURSIVE TakeToken(_)
TakeToken(s) ==
    IF s = <<>> \/ Head(s) \in Whitespace
    THEN <<>>
    ELSE <<Head(s)>> \o TakeToken(Tail(s))

FirstToken(s) == TakeToken(LStrip(s))

\* s.split('\n'): the lines of s, at least one
RECURSIVE SplitLines(_)
SplitLines(s) ==
    IF \A i \in 1..Len(s) : s[i] # NL
    THEN <<s>>
    ELSE LET k == CHOOSE i \in 1..Len(s) :
                      s[i] = NL /\ \A j \in 1..(i - 1) : s[j] # NL
         IN  <<SubSeq(s, 1, k - 1)>> \o SplitLines(DropFirst(s, k))

\* '\n'.join(lines)
RECURSIVE JoinLines(_)
JoinLines(lines) ==
    IF lines = <<>> THEN <<>>
    ELSE IF Len(lines) = 1 THEN lines[1]
    ELSE lines[1] \o <<NL>> \o JoinLines(Tail(lines))

(***************************************************************************)
(* CommandValidator                                                        *)
(***************************************************************************)
\* the fixed list of validate()
dangerous_patterns ==
    << <<"r","m"," ","-","r","f"," ","/">>,
       <<"d","d"," ","i","f","=">>,
       <<">"," ","/","d","e","v","/">>,
       <<"c","h","m","o","d"," ","7","7","7">>,
       <<"c","u","r","l"," ","|"," ","s","h">> >>

ContainsDangerous(command) ==
    \E i \in 1..Len(dangerous_patterns) : Contains(command, dangerous_patterns[i])

\* the first dangerous pattern, in list order, that the command contains
FirstDangerous(command) ==
    dangerous_patterns[CHOOSE i \in 1..Len(dangerous_patterns) :
        /\ Contains(command, dangerous_patterns[i])
        /\ \A j \in 1..(i - 1) : ~Contains(command, dangerous_patterns[j])]

\* a policy is CommandValidator's three sets
Validator(whitelist, blacklist, require_approval) ==
    [whitelist |-> whitelist, blacklist |-> blacklist,
     require_approval |-> require_approval]

Verdict(ok, why, pattern) == [ok |-> ok, why |-> why, pattern |-> pattern]

\* validate with the dangerous-pattern check left out
ValidateNoDangerous(v, command) ==
    IF Strip(command) = <<>>
    THEN Verdict(FALSE, "Empty command", <<>>)
    ELSE LET base_cmd == FirstToken(command)
         IN  IF \E b \in v.blacklist : Contains(command, b)
             THEN Verdict(FALSE, "blacklisted pattern",
                          CHOOSE b \in v.blacklist : Contains(command, b))
             ELSE IF v.whitelist # {} /\ base_cmd \notin v.whitelist
             THEN Verdict(FALSE, "not in whitelist", base_cmd)
             ELSE Verdict(TRUE, "Valid", <<>>)

\* validate with the blacklist loop left out
ValidateNoBlacklist(v, command) ==
    IF Strip(command) = <<>>
    THEN Verdict(FALSE, "Empty command", <<>>)
    ELSE LET base_cmd == FirstToken(command)
         IN  IF v.whitelist # {} /\ base_cmd \notin v.whitelist
             THEN Verdict(FALSE, "not in whitelist", base_cmd)
             ELSE IF ContainsDangerous(command)
             THEN Verdict(FALSE, "dangerous pattern", FirstDangerous(command))
             ELSE Verdict(TRUE, "Valid", <<>>)

\* CommandValidator.validate: (is_valid, reason); the reason is its message
\* kind and the pattern or command the message names
validate(v, command) ==
    IF Strip(command) = <<>>
    THEN Verdict(FALSE, "Empty command", <<>>)
    ELSE LET base_cmd == FirstToken(command)
         IN  IF \E b \in v.blacklist : Contains(command, b)
             THEN Verdict(FALSE, "blacklisted pattern",
                          CHOOSE b \in v.blacklist : Contains(command, b))
             ELSE IF v.whitelist # {} /\ base_cmd \notin v.whitelist
             THEN Verdict(FALSE, "not in whitelist", base_cmd)
             ELSE IF ContainsDangerous(command)
             THEN Verdict(FALSE, "dangerous pattern", FirstDangerous(command))
             ELSE Verdict(TRUE, "Valid", <<>>)

\* CommandValidator.needs_approval
needs_approval(v, command) == FirstToken(command) \in v.require_approval

(***************************************************************************)
(* DeepSeekOrchestrator.extract_command                                    *)
(***************************************************************************)
prefixes_to_remove ==
    << <<"I"," ","s","u","g","g","e","s","t"," ","r","u","n","n","i","n","g",":">>,
       <<"Y","o","u"," ","s","h","o","u","l","d"," ","r","u","n",":">>,
       <<"T","r","y"," ","r","u","n","n","i","n","g",":">>,
       <<"E","x","e","c","u","t","e",":">>,
       <<"C","o","m","m","a","n","d",":">>,
       <<"R","u","n",":">>,
       <<"$">>,
       <<"#">> >>

\* the backquote character, written as a name: the lexer accepts no backquote
\* inside a string
BQ == "BACKQUOTE"

\* the triple-backquote marker
Fence == <<BQ, BQ, BQ>>

\* the loop over prefixes_to_remove, from prefix number i on
RECURSIVE StripPrefixes(_, _)
StripPrefixes(response, i) ==
    IF i > Len(prefixes_to_remove) THEN response
    ELSE IF StartsWith(response, prefixes_to_remove[i])
    THEN StripPrefixes(Strip(DropFirst(response, Len(prefixes_to_remove[i]))), i + 1)
    ELSE StripPrefixes(response, i + 1)

\* the markdown code block branch
StripFence(response) ==
    IF StartsWith(response, Fence)
    THEN LET lines == SplitLines(response)
         IN  IF Len(lines) > 2
             THEN JoinLines(SubSeq(lines, 2, Len(lines) - 1))
             ELSE <<>>
    ELSE response

\* extract_command: the command, or <<>> for None (the code returns None
\* exactly when the stripped text is empty)
extract_command(response) ==
    Strip(StripFence(StripPrefixes(Strip(response), 1)))


(***************************************************************************)
(* The bounded inputs of the model.                                        *)
(***************************************************************************)
\* process_request calls started in one run
MaxRequests == 2

\* trigger files created in one run
MaxCreates == 2

\* words used in policies
ls == <<"l","s">>
cat == <<"c","a","t">>
echo == <<"e","c","h","o">>
pwd == <<"p","w","d">>
date == <<"d","a","t","e">>
whoami == <<"w","h","o","a","m","i">>
docker == <<"d","o","c","k","e","r">>
git == <<"g","i","t">>
systemctl == <<"s","y","s","t","e","m","c","t","l">>
rm == <<"r","m">>
chmod == <<"c","h","m","o","d">>

\* the default configuration of load_config
DefaultPolicy ==
    Validator({ls, cat, echo, pwd, date, whoami},
              {<<"r","m"," ","-","r","f">>, <<"d","d">>, <<"m","k","f","s">>},
              {docker, git, systemctl})

\* no whitelist and no blacklist; docker needs approval
OpenPolicy == Validator({}, {}, {docker})

\* the policies the orchestrator is run under
Policies == {DefaultPolicy, OpenPolicy}

\* ExecutionMode
Modes == {"auto_approve", "prompt", "dry_run", "audit_only"}

\* what users type at the CLI prompt
UserInputs ==
    { <<"D","e","p","l","o","y">>,
      <<"l","i","s","t"," ","f","i","l","e","s">> }

\* what producers write into trigger files
FileTexts == { <<"l","i","s","t"," ","f","i","l","e","s",NL>> }

\* what a loaded model may answer
ModelResponses ==
    { <<>>,
      <<"r","m"," ","-","r","f"," ","/"," ","-","-","f","o","r","c","e">>,
      <<"$"," ","d","o","c","k","e","r"," ","p","s">>,
      <<"e","c","h","o"," ","h","i">> }

\* the text infer returns when the model call raises an exception whose
\* message is x
InferenceErrorText == <<"E","r","r","o","r",":"," ","x">>

\* str.lower(), on the letters the inputs use
LowerChar(c) ==
    CASE c = "D" -> "d"
      [] c = "L" -> "l"
      [] c = "S" -> "s"
      [] OTHER -> c

Lower(s) == [i \in 1..Len(s) |-> LowerChar(s[i])]

\* DeepSeekInference._mock_inference.  The prompt is the fixed system prompt
\* around the user's input; the system prompt holds none of the four words,
\* so the tests on the prompt are the tests on the input.
mock_inference(user_input) ==
    LET prompt == Lower(user_input)
        suggest == <<"I"," ","s","u","g","g","e","s","t"," ","r","u","n","n","i","n","g",":"," ">>
    IN  IF Contains(prompt, <<"d","e","p","l","o","y">>)
        THEN suggest \o <<"d","o","c","k","e","r"," ","c","o","m","p","o","s","e"," ","u","p"," ","-","d">>
        ELSE IF Contains(prompt, <<"l","i","s","t">>) \/ Contains(prompt, <<"s","h","o","w">>)
        THEN suggest \o <<"l","s"," ","-","l","a">>
        ELSE IF Contains(prompt, <<"s","t","a","t","u","s">>)
        THEN suggest \o <<"s","y","s","t","e","m","c","t","l"," ","s","t","a","t","u","s">>
        ELSE suggest \o <<"e","c","h","o"," ","'","C","o","m","m","a","n","d"," ","p","r","o","c","e","s","s","e","d","'">>

\* what infer returns, and whether the backend failed
Answer(text, failed) == [text |-> text, failed |-> failed]

\* DeepSeekInference.infer: the answers it may return for an input.  The
\* model call returns a text, or it raises and the except clause returns the
\* error text.
infer(loaded, user_input) ==
    IF loaded
    THEN {Answer(r, FALSE) : r \in ModelResponses}
             \cup {Answer(InferenceErrorText, TRUE)}
    ELSE {Answer(mock_inference(user_input), FALSE)}

(***************************************************************************)
(* CommandExecutor                                                         *)
(***************************************************************************)
\* the default of CommandExecutor.__init__
timeout == 30

CommandResult(success, stdout, stderr, return_code, execution_time) ==
    [success |-> success, stdout |-> stdout, stderr |-> stderr,
     return_code |-> return_code, execution_time |-> execution_time]

DryRunTag == <<"[","D","R","Y"," ","R","U","N","]"," ">>

\* the result of the dry_run branch
DryRunResult(command) == CommandResult(TRUE, DryRunTag \o command, <<>>, 0, 0)

\* what subprocess.run may come to: the child exits with a return code and
\* its captured output after some measured time, it runs into the timeout
\* (TimeoutExpired), or the call raises another exception with a message
Exited(returncode, stdout, stderr, elapsed) ==
    [kind |-> "exit", returncode |-> returncode, stdout |-> stdout,
     stderr |-> stderr, elapsed |-> elapsed]

TimedOut == [kind |-> "timeout"]

LaunchFailed(message, elapsed) ==
    [kind |-> "error", message |-> message, elapsed |-> elapsed]

\* f"Command timed out after {self.timeout} seconds"
TimeoutText(t) ==
    <<"C","o","m","m","a","n","d"," ","t","i","m","e","d"," ","o","u","t"," ",
      "a","f","t","e","r"," ", ToString(t), " ","s","e","c","o","n","d","s">>

\* the try block with success set for every child that ran to its end
RunResultAnyExitSucceeds(child, t) ==
    CASE child.kind = "exit" ->
            CommandResult(TRUE, child.stdout, child.stderr, child.returncode,
                          child.elapsed)
      [] child.kind = "timeout" ->
            CommandResult(FALSE, <<>>, TimeoutText(t), -1, t)
      [] child.kind = "error" ->
            CommandResult(FALSE, <<>>, child.message, -1, child.elapsed)

\* the try block of execute and its two except clauses, for timeout t
RunResult(child, t) ==
    CASE child.kind = "exit" ->
            CommandResult(child.returncode = 0, child.stdout, child.stderr,
                          child.returncode, child.elapsed)
      [] child.kind = "timeout" ->
            CommandResult(FALSE, <<>>, TimeoutText(t), -1, t)
      [] child.kind = "error" ->
            CommandResult(FALSE, <<>>, child.message, -1, child.elapsed)

\* the children of the requests
Children ==
    { Exited(0, <<"o","u","t">>, <<>>, 1),
      Exited(1, <<>>, <<"e","r","r">>, 1),
      TimedOut,
      LaunchFailed(<<"e","x","c">>, 0) }

\* the results of a spawned child under the default timeout
SpawnOutcomes == { RunResult(child, timeout) : child \in Children }

\* execute with the dry_run branch left out
ExecuteIgnoresDryRun(command, dry_run) ==
    [spawns |-> TRUE, results |-> SpawnOutcomes]

\* CommandExecutor.execute with timeout t, for what subprocess.run comes to
ExecuteChild(command, dry_run, t, child) ==
    IF dry_run THEN DryRunResult(command) ELSE RunResult(child, t)

\* CommandExecutor.execute: the results it may return, and whether it spawns
execute(command, dry_run) ==
    [spawns |-> ~dry_run,
     results |-> {ExecuteChild(command, dry_run, timeout, child) : child \in Children}]



(***************************************************************************)
(* The state.                                                              *)
(***************************************************************************)
\* the execution contexts that call process_request: the CLI loop and the
\* observer thread that runs TriggerFileHandler.on_created.  main starts one
\* of them, as --mode says.
Ctx == {"cli", "watch"}

Bases == {"a"}
TriggerSuffixes == {".flag", ".task"}
Suffixes == TriggerSuffixes \cup {".txt"}
Files == [base : Bases, suffix : Suffixes]

\* Python's None
None == [py |-> "None"]

\* Python's True and False as the audit table stores them
PyBool(b) == IF b THEN "True" ELSE "False"

VARIABLES
    execution_mode,  \* DeepSeekOrchestrator.execution_mode
    validator,       \* DeepSeekOrchestrator.validator
    model_loaded,    \* whether DeepSeekInference.model is set
    run_mode,        \* main's --mode: the CLI loop or the directory watcher
    pc,              \* where each context is
    local,           \* each context's local variables
    audit_log,       \* the rows of table audit_log, in insertion order
    trig,            \* the trigger directory: each file's presence and text
    results,         \* the .result file of each base name
    events,          \* file-creation events not yet dispatched
    calls,           \* per context: the calls its current request has made
    logged,          \* per context: rows its current request has inserted
    spawned,         \* child processes spawned so far
    consumed,        \* trigger files removed by the handler
    nreq,            \* process_request calls started
    ncreate,         \* trigger files written by producers
    created,         \* per file: the creation events it has raised
    processed,       \* per file: the process_request calls made for it
    fn_in,           \* the arguments of the last direct call of a function
    fn_out,          \* what that call returned
    REQUIRE_AUTH,    \* web_api's REQUIRE_AUTH
    API_KEY,         \* web_api's API_KEY
    now,             \* the clock datetime.now() reads, in microseconds
    tasks,           \* the task files AppBridge has written: name to content
    submitted,       \* the submit_command calls made, in order
    request,         \* the last HTTP request
    response,        \* the answer to it
    batch,           \* the submit_batch call in progress
    config_file,     \* the configuration file: the mode and policy it holds
    view,            \* the last answer of the audit query tool
    waited           \* what the last wait_for_result call returned

vars == <<execution_mode, validator, model_loaded, run_mode, pc, local, audit_log, trig,
          results, events, calls, logged, spawned, consumed, nreq, ncreate,
          created, processed, fn_in, fn_out, REQUIRE_AUTH, API_KEY, now, tasks,
          submitted, request, response, batch, config_file, view, waited>>

config == <<execution_mode, validator, model_loaded, run_mode>>
filesys == <<trig, results, events, consumed, ncreate, created>>
direct == <<fn_in, fn_out>>
web == <<REQUIRE_AUTH, API_KEY, now, tasks, submitted, request, response, batch>>
api == <<REQUIRE_AUTH, API_KEY>>
around == <<config_file, view, waited>>
orchestrator_state == <<config, direct, pc, local, audit_log, filesys, calls,
                        logged, spawned, nreq, processed>>
orchestrator == <<orchestrator_state, around>>

NoFile == [base |-> "", suffix |-> ""]

InitLocal ==
    [trigger_source |-> <<>>, user_input |-> <<>>, deepseek_response |-> <<>>,
     suggested_command |-> <<>>, pending |-> None, result |-> None,
     raised |-> FALSE, file |-> NoFile,
     infer_failed |-> FALSE, log_failed |-> FALSE,
     mode_at_approval |-> "", mode_at_execute |-> ""]

NoResultFile == [exists |-> FALSE, content |-> <<>>, closed |-> FALSE]

\* a header or a query parameter of a request: absent (get returns None), or
\* present with a value, which may be the empty text
Absent == [present |-> FALSE, value |-> <<>>]
Supplied(value) == [present |-> TRUE, value |-> value]

\* the keys of the requests; GoodKey is the configured one
GoodKey == <<"k","e","y">>
BadKey == <<"b","a","d">>

Request(endpoint, header, query, data) ==
    [endpoint |-> endpoint, header |-> header, query |-> query, data |-> data]

\* the JSON body of a POST: with or without the member command
NoCommand == [has_command |-> FALSE, command |-> <<>>]
WithCommand(command) == [has_command |-> TRUE, command |-> command]

\* an answer: its status, what its body says, the task file it names, and
\* whether the wrapped handler ran
Response(status, body, task_file, ran) ==
    [status |-> status, body |-> body, task_file |-> task_file, ran |-> ran]

NoRequest == Request("", Absent, Absent, NoCommand)
NoResponse == Response(0, "", <<>>, FALSE)
NoBatch == [active |-> FALSE, source |-> <<>>, commands |-> <<>>, i |-> 0,
            at |-> "idle"]

\* the web API's globals as config.json sets them
InitApi ==
    /\ REQUIRE_AUTH \in BOOLEAN
    /\ API_KEY \in {GoodKey, <<>>}

\* AppBridge.__init__, and a web API that has answered nothing
InitBridge ==
    /\ now = 0
    /\ tasks = [name \in {} |-> <<>>]
    /\ submitted = <<>>
    /\ request = NoRequest
    /\ response = NoResponse
    /\ batch = NoBatch

\* no request has been made and the trigger directory is empty
InitRequests ==
    /\ pc = [c \in Ctx |-> "idle"]
    /\ local = [c \in Ctx |-> InitLocal]
    /\ audit_log = <<>>
    /\ trig = [f \in Files |-> [exists |-> FALSE, text |-> <<>>]]
    /\ results = [b \in Bases |-> NoResultFile]
    /\ events = <<>>
    /\ calls = [c \in Ctx |-> <<>>]
    /\ logged = [c \in Ctx |-> 0]
    /\ spawned = 0
    /\ consumed = {}
    /\ nreq = 0
    /\ ncreate = 0
    /\ created = [f \in Files |-> 0]
    /\ processed = [f \in Files |-> 0]
    /\ fn_in = None
    /\ fn_out = None

InitOrchestrator ==
    /\ execution_mode \in Modes
    /\ validator \in Policies
    /\ model_loaded \in BOOLEAN
    /\ run_mode \in Ctx
    /\ InitRequests

\* nothing has been asked of the audit query tool
NoView == [op |-> "", rows |-> <<>>]

\* wait_for_result has not returned
NoWait == [returned |-> FALSE, success |-> FALSE, output |-> <<>>]

\* the configuration file holds what load_config read, no query has been
\* made and no program waits for a result
InitAround ==
    /\ config_file = [execution_mode |-> execution_mode, validator |-> validator]
    /\ view = NoView
    /\ waited = NoWait

\* the orchestrator as main starts it; the web API is not serving
Init ==
    /\ InitOrchestrator
    /\ InitBridge
    /\ InitAround
    /\ REQUIRE_AUTH = TRUE
    /\ API_KEY = GoodKey

(***************************************************************************)
(* AuditLogger.log_event and the rows process_request writes.              *)
(***************************************************************************)
\* the row log_event inserts; a keyword process_request does not pass is None
AuditRecord(event_type, l, suggested_command, approved, executed, execution_result) ==
    [event_type |-> event_type,
     trigger_source |-> l.trigger_source,
     deepseek_input |-> l.user_input,
     deepseek_output |-> l.deepseek_response,
     suggested_command |-> suggested_command,
     approved |-> approved,
     executed |-> executed,
     execution_result |-> execution_result]

\* json.dumps of the result's five fields
JsonOf(result) == [json |-> result]

NoCommandRecord(l) ==
    AuditRecord("no_command_extracted", l, None, "None", "None", None)

ValidationFailedRecord(l, verdict) ==
    AuditRecord("validation_failed", l, l.suggested_command, PyBool(FALSE),
                PyBool(FALSE), [why |-> verdict.why, pattern |-> verdict.pattern])

UserRejectedRecord(l) ==
    AuditRecord("user_rejected", l, l.suggested_command, PyBool(FALSE),
                PyBool(FALSE), None)

AuditOnlyRecord(l) ==
    AuditRecord("audit_only", l, l.suggested_command, PyBool(TRUE),
                PyBool(FALSE), None)

\* the executed row with approved left out
ExecutedRecordUnapproved(l, result) ==
    AuditRecord("command_executed", l, l.suggested_command, "None",
                PyBool(TRUE), JsonOf(result))

CommandExecutedRecord(l, result) ==
    AuditRecord("command_executed", l, l.suggested_command, PyBool(TRUE),
                PyBool(TRUE), JsonOf(result))

(***************************************************************************)
(* DeepSeekOrchestrator.process_request, one action per stage.             *)
(***************************************************************************)
\* the source the handler passes: "file:" and the file's name
FileSource(f) == <<"file:", f.base, f.suffix>>

CliSource == <<"cli">>

\* two orchestrator processes, one started in each mode, on one audit database
both == "both"

\* entering process_request
Enter(c, source, user_input, f) ==
    /\ nreq < MaxRequests
    /\ nreq' = nreq + 1
    /\ processed' = IF f = NoFile THEN processed
                    ELSE [processed EXCEPT ![f] = @ + 1]
    /\ local' = [local EXCEPT ![c] =
                    [InitLocal EXCEPT !.trigger_source = source,
                                      !.user_input = user_input,
                                      !.file = f]]
    /\ calls' = [calls EXCEPT ![c] = <<>>]
    /\ logged' = [logged EXCEPT ![c] = 0]
    /\ pc' = [pc EXCEPT ![c] = "infer"]

\* run_cli_mode: a non-empty line that is neither exit nor help
CliRequest ==
    /\ run_mode \in {"cli", both}
    /\ pc["cli"] = "idle"
    /\ \E user_input \in UserInputs : Enter("cli", CliSource, user_input, NoFile)
    /\ UNCHANGED <<config, web, around, direct, audit_log, filesys, spawned>>

\* inference and extraction; no command: the no_command_extracted row is next
Infer(c) ==
    /\ pc[c] = "infer"
    /\ \E answer \in infer(model_loaded, local[c].user_input) :
          LET text == answer.text
              command == extract_command(text)
              l == [local[c] EXCEPT !.deepseek_response = text,
                                    !.suggested_command = command,
                                    !.infer_failed = answer.failed]
          IN  IF command = <<>>
              THEN /\ local' = [local EXCEPT ![c] =
                                   [l EXCEPT !.pending = NoCommandRecord(l)]]
                   /\ pc' = [pc EXCEPT ![c] = "log"]
              ELSE /\ local' = [local EXCEPT ![c] = l]
                   /\ pc' = [pc EXCEPT ![c] = "validate"]
    /\ UNCHANGED <<config, web, around, direct, audit_log, filesys, calls, logged, spawned, nreq, processed>>

\* the approval decision with the policy's require_approval_for left out
ApprovalNeededModeOnly(mode, v, command) == mode = "prompt"

\* whether approval is needed
ApprovalNeeded(mode, v, command) ==
    mode = "prompt" \/ needs_approval(v, command)

\* the stage after validation, with the validity check left out
AfterValidateUnchecked(is_valid, needs) ==
    IF needs THEN "approval" ELSE "execute"

\* the stage after validation
AfterValidate(is_valid, needs) ==
    IF ~is_valid THEN "log"
    ELSE IF needs THEN "approval" ELSE "execute"

Validate(c) ==
    /\ pc[c] = "validate"
    /\ LET l == local[c]
           verdict == validate(validator, l.suggested_command)
           needs == ApprovalNeeded(execution_mode, validator, l.suggested_command)
       IN  /\ calls' = [calls EXCEPT ![c] =
                  Append(@, IF verdict.ok THEN "validate:ok" ELSE "validate:reject")]
           /\ pc' = [pc EXCEPT ![c] = AfterValidate(verdict.ok, needs)]
           /\ local' = [local EXCEPT ![c] =
                  IF verdict.ok THEN [l EXCEPT !.mode_at_approval = execution_mode]
                  ELSE [l EXCEPT !.pending = ValidationFailedRecord(l, verdict)]]
    /\ UNCHANGED <<config, web, around, direct, audit_log, filesys, logged, spawned, nreq, processed>>

\* get_user_approval: the user answers y or n in the end, or input() raises
\* (EOFError when the input has ended, KeyboardInterrupt at the CLI)
Approve(c) ==
    /\ pc[c] = "approval"
    /\ \/ /\ calls' = [calls EXCEPT ![c] = Append(@, "approval:y")]
          /\ pc' = [pc EXCEPT ![c] = "execute"]
          /\ UNCHANGED local
       \/ /\ calls' = [calls EXCEPT ![c] = Append(@, "approval:n")]
          /\ pc' = [pc EXCEPT ![c] = "log"]
          /\ local' = [local EXCEPT ![c].pending = UserRejectedRecord(local[c])]
       \/ /\ calls' = [calls EXCEPT ![c] = Append(@, "approval:raise")]
          /\ pc' = [pc EXCEPT ![c] = "return"]
          /\ local' = [local EXCEPT ![c].raised = TRUE]
    /\ UNCHANGED <<config, web, around, direct, audit_log, filesys, logged, spawned, nreq, processed>>

\* the audit-only branch, or CommandExecutor.execute and the executed row
Execute(c) ==
    /\ pc[c] = "execute"
    /\ LET l == local[c]
           dry_run == execution_mode = "dry_run"
           audit_only == execution_mode = "audit_only"
       IN  IF audit_only
           THEN /\ local' = [local EXCEPT ![c].pending = AuditOnlyRecord(l),
                                          ![c].mode_at_execute = execution_mode]
                /\ UNCHANGED <<calls, spawned>>
           ELSE LET e == execute(l.suggested_command, dry_run)
                IN  /\ \E result \in e.results :
                          local' = [local EXCEPT ![c].result = result,
                               ![c].pending = CommandExecutedRecord(l, result),
                               ![c].mode_at_execute = execution_mode]
                    /\ calls' = [calls EXCEPT ![c] = Append(@, "execute")]
                    /\ spawned' = spawned + (IF e.spawns THEN 1 ELSE 0)
    /\ pc' = [pc EXCEPT ![c] = "log"]
    /\ UNCHANGED <<config, web, around, direct, audit_log, filesys, logged, nreq, processed>>

\* the INSERT of log_event written as an overwrite of the newest row
InsertRowOverwrites(log, row) ==
    IF log = <<>> THEN <<row>> ELSE [log EXCEPT ![Len(log)] = row]

\* INSERT INTO audit_log and commit: the row is added after the others
InsertRow(log, row) == Append(log, row)

\* log_event: the row is inserted and committed, or sqlite3 raises (the
\* database is locked or cannot be opened) and nothing is inserted
LogEvent(c) ==
    /\ pc[c] = "log"
    /\ \/ /\ audit_log' = InsertRow(audit_log, local[c].pending)
          /\ logged' = [logged EXCEPT ![c] = @ + 1]
          /\ UNCHANGED local
       \/ /\ local' = [local EXCEPT ![c].raised = TRUE, ![c].result = None,
                                      ![c].log_failed = TRUE]
          /\ UNCHANGED <<audit_log, logged>>
    /\ pc' = [pc EXCEPT ![c] = "return"]
    /\ UNCHANGED <<config, web, around, direct, filesys, calls, spawned, nreq, processed>>

\* process_request hands control back to the CLI loop, which prints the
\* result or logs the exception
CliReturn ==
    /\ pc["cli"] = "return"
    /\ pc' = [pc EXCEPT !["cli"] = "idle"]
    /\ local' = [local EXCEPT !["cli"] = InitLocal]
    /\ calls' = [calls EXCEPT !["cli"] = <<>>]
    /\ logged' = [logged EXCEPT !["cli"] = 0]
    /\ UNCHANGED <<config, web, around, direct, audit_log, filesys, spawned, nreq, processed>>



(***************************************************************************)
(* The trigger directory and TriggerFileHandler.on_created.                *)
(***************************************************************************)
\* the handler overrides on_created alone, so a write to a file that exists
\* (a modification) is dispatched to nothing: with every write taken for a
\* creation
EventsAfterWriteAlways(existed, evs, f) == Append(evs, f)

\* the creation events pending after a write to file f
EventsAfterWrite(existed, evs, f) ==
    IF existed THEN evs ELSE Append(evs, f)

\* a producer writes a trigger file with open(path, 'w'): AppBridge's
\* submit_command, AlienPCIntegration's execute_proposal_command, or any
\* program that drops a file.  Only a file that did not exist raises a
\* creation event.  The directory is followed while it is watched.
CreateFile ==
    /\ run_mode \in {"watch", both}
    /\ ncreate < MaxCreates
    /\ \E f \in Files, text \in FileTexts :
          /\ trig' = [trig EXCEPT ![f] = [exists |-> TRUE, text |-> text]]
          /\ events' = EventsAfterWrite(trig[f].exists, events, f)
          /\ created' = IF trig[f].exists THEN created
                        ELSE [created EXCEPT ![f] = @ + 1]
    /\ ncreate' = ncreate + 1
    /\ UNCHANGED <<config, web, around, direct, pc, local, audit_log, results, calls, logged,
                   spawned, consumed, nreq, processed>>

\* the lines on_created writes to the result file, one per f.write
ResultText(result) ==
    IF result # None
    THEN << [Success |-> result.success],
            [ReturnCode |-> result.return_code],
            [Output |-> result.stdout] >>
         \o (IF result.stderr # <<>> THEN << [Errors |-> result.stderr] >> ELSE <<>>)
    ELSE << [NotExecuted |-> TRUE] >>

\* the handler gives up: its except clause logs the error
HandlerAbort ==
    /\ pc' = [pc EXCEPT !["watch"] = "idle"]
    /\ local' = [local EXCEPT !["watch"] = InitLocal]
    /\ calls' = [calls EXCEPT !["watch"] = <<>>]
    /\ logged' = [logged EXCEPT !["watch"] = 0]

\* on_created is called for the next event; a file that is neither .flag nor
\* .task is ignored.  The observer calls the handler from its one thread, so
\* the next event waits until on_created has returned.
Dispatch ==
    /\ pc["watch"] = "idle"
    /\ events # <<>>
    /\ events' = Tail(events)
    /\ LET f == Head(events)
       IN  IF f.suffix \notin TriggerSuffixes
           THEN UNCHANGED <<pc, local>>
           ELSE /\ pc' = [pc EXCEPT !["watch"] = "h_read"]
                /\ local' = [local EXCEPT !["watch"].file = f]
    /\ UNCHANGED <<config, web, around, direct, audit_log, trig, results, calls, logged,
                   spawned, consumed, nreq, ncreate, created, processed>>

\* the file is read and process_request is entered, or the read raises
HandlerRead ==
    /\ pc["watch"] = "h_read"
    /\ LET f == local["watch"].file
       IN  \/ /\ trig[f].exists
              /\ Enter("watch", FileSource(f), Strip(trig[f].text), f)
           \/ /\ HandlerAbort
              /\ UNCHANGED <<nreq, processed>>
    /\ UNCHANGED <<config, web, around, direct, audit_log, filesys, spawned>>

\* on_created going on to the result file whether or not process_request
\* raised
HandlerReturnAlways ==
    /\ pc["watch"] = "return"
    /\ pc' = [pc EXCEPT !["watch"] = "h_open"]
    /\ UNCHANGED <<local, calls, logged>>
    /\ UNCHANGED <<config, web, around, direct, audit_log, filesys, spawned, nreq, processed>>

\* process_request hands control back to on_created, with a result or with
\* an exception
HandlerReturn ==
    /\ pc["watch"] = "return"
    /\ IF local["watch"].raised
       THEN HandlerAbort
       ELSE /\ pc' = [pc EXCEPT !["watch"] = "h_open"]
            /\ UNCHANGED <<local, calls, logged>>
    /\ UNCHANGED <<config, web, around, direct, audit_log, filesys, spawned, nreq, processed>>

\* open(result_path, 'w'): the result file is created or truncated
HandlerOpen ==
    /\ pc["watch"] = "h_open"
    /\ \/ /\ results' = [results EXCEPT ![local["watch"].file.base] =
                            [exists |-> TRUE, content |-> <<>>, closed |-> FALSE]]
          /\ pc' = [pc EXCEPT !["watch"] = "h_write"]
          /\ UNCHANGED <<local, calls, logged>>
       \/ /\ HandlerAbort
          /\ UNCHANGED results
    /\ UNCHANGED <<config, web, around, direct, audit_log, trig, events, consumed, ncreate, created,
                   spawned, nreq, processed>>

\* the report is written and the file closed, or a write raises and the file
\* keeps what was written before
HandlerWrite ==
    /\ pc["watch"] = "h_write"
    /\ LET b == local["watch"].file.base
           text == ResultText(local["watch"].result)
       IN  \/ /\ results' = [results EXCEPT ![b] =
                                [exists |-> TRUE, content |-> text, closed |-> TRUE]]
              /\ pc' = [pc EXCEPT !["watch"] = "h_remove"]
              /\ UNCHANGED <<local, calls, logged>>
           \/ /\ \E n \in 0..(Len(text) - 1) :
                     results' = [results EXCEPT ![b] =
                         [exists |-> TRUE, content |-> SubSeq(text, 1, n),
                          closed |-> FALSE]]
              /\ HandlerAbort
    /\ UNCHANGED <<config, web, around, direct, audit_log, trig, events, consumed, ncreate, created,
                   spawned, nreq, processed>>

\* os.remove(file_path): the trigger file is removed, or the removal raises
HandlerRemove ==
    /\ pc["watch"] = "h_remove"
    /\ LET f == local["watch"].file
       IN  \/ /\ trig' = [trig EXCEPT ![f] = [exists |-> FALSE, text |-> <<>>]]
              /\ consumed' = consumed \cup {f}
           \/ UNCHANGED <<trig, consumed>>
    /\ HandlerAbort
    /\ UNCHANGED <<config, web, around, direct, audit_log, results, events, ncreate, created,
                   spawned, nreq, processed>>

Next ==
    \/ CliRequest
    \/ CliReturn
    \/ \E c \in Ctx : Infer(c)
    \/ \E c \in Ctx : Validate(c)
    \/ \E c \in Ctx : Approve(c)
    \/ \E c \in Ctx : Execute(c)
    \/ \E c \in Ctx : LogEvent(c)
    \/ CreateFile
    \/ Dispatch
    \/ HandlerRead
    \/ HandlerReturn
    \/ HandlerOpen
    \/ HandlerWrite
    \/ HandlerRemove

Spec == Init /\ [][Next]_vars



(***************************************************************************)
(* validate called directly, on commands and policies of its own.          *)
(***************************************************************************)
ValidateCommands ==
    { <<>>,
      <<" "," ">>,
      <<"l","s"," ","-","l","a">>,
      <<"e","c","h","o"," ","h","i">>,
      <<"r","m"," ","-","r"," ","x">>,
      <<"r","m"," ","-","r","f"," ","x">>,
      <<"e","c","h","o"," ","a","d","d">>,
      <<"c","u","r","l"," ","x"," ","|"," ","s","h">>,
      <<"r","m"," ","-","r","f"," ","/">>,
      <<"r","m"," ","-","r","f"," ","/"," ","-","-","f","o","r","c","e">>,
      <<"e","c","h","o"," ","x"," ",";"," ","r","m"," ","-","r","f"," ","/">>,
      <<"d","d"," ","i","f","=","x">>,
      <<"e","c","h","o"," ","x"," ",">"," ","/","d","e","v","/","s","d","a">>,
      <<"c","h","m","o","d"," ","7","7","7"," ","f">>,
      <<"c","u","r","l"," ","|"," ","s","h">> }

ValidatePolicies ==
    { Validator(w, b, {}) :
        w \in SUBSET {rm, echo, chmod, <<"d","d">>, <<"c","u","r","l">>},
        b \in { {}, {<<"r","m"," ","-","r","f">>}, {<<"d","d">>},
                {<<"r","m"," ","-","r","f">>, <<"d","d">>, <<"m","k","f","s">>} } }

InitValidate ==
    /\ Init
    /\ execution_mode = "prompt"
    /\ validator = DefaultPolicy
    /\ ~model_loaded
    /\ run_mode = "cli"

ApplyValidate ==
    /\ \E v \in ValidatePolicies, command \in ValidateCommands :
          /\ fn_in' = [v |-> v, command |-> command]
          /\ fn_out' = validate(v, command)
    /\ UNCHANGED <<config, web, around, pc, local, audit_log, filesys, calls, logged, spawned,
                   nreq, processed>>

SpecValidate == InitValidate /\ [][ApplyValidate]_vars

(***************************************************************************)
(* execute called directly, on children and timeouts of its own.           *)
(***************************************************************************)
ExecuteCommands == { <<"l","s"," ","-","l","a">>, <<"s","l","e","e","p"," ","5">> }

\* CommandExecutor(timeout=...)
Timeouts == {1, timeout}

ReturnCodes == {0, 1, 2, 127, -1, -9}

ExecuteChildren ==
    { Exited(rc, out, err, elapsed) :
        rc \in ReturnCodes, out \in {<<>>, <<"o","u","t">>},
        err \in {<<>>, <<"e","r","r">>}, elapsed \in {0, 1} }
    \cup {TimedOut}
    \cup { LaunchFailed(<<"e","x","c">>, elapsed) : elapsed \in {0, 1} }

ApplyExecute ==
    /\ \E command \in ExecuteCommands, dry_run \in BOOLEAN, t \in Timeouts,
          child \in ExecuteChildren :
          /\ fn_in' = [command |-> command, dry_run |-> dry_run, timeout |-> t,
                       child |-> child]
          /\ fn_out' = ExecuteChild(command, dry_run, t, child)
    /\ UNCHANGED <<config, web, around, pc, local, audit_log, filesys, calls, logged, spawned,
                   nreq, processed>>

SpecExecute == InitValidate /\ [][ApplyExecute]_vars

(***************************************************************************)
(* extract_command called directly, on suggestions of its own.             *)
(***************************************************************************)
\* the commands inside the suggestions
ExtractCommands == { <<"l","s"," ","-","l","a">>, <<"e","c","h","o"," ","h","i">> }

\* a known prefix, by its place in prefixes_to_remove; 0 is no prefix
PrefixText(i) == IF i = 0 THEN <<>> ELSE prefixes_to_remove[i] \o <<" ">>

\* suggestions with up to two known prefixes in front of the command, in
\* every order
NestedSuggestions ==
    { PrefixText(i) \o PrefixText(j) \o command :
        i \in 0..Len(prefixes_to_remove), j \in 0..Len(prefixes_to_remove),
        command \in ExtractCommands }

\* suggestions with a markdown code block: closed, tagged with a language,
\* of two lines, followed by an explanation, not closed, on one line, empty,
\* behind a prefix, and holding a prefix of its own
FencedSuggestions ==
    { JoinLines(<<Fence, <<"l","s"," ","-","l","a">>, Fence>>),
      JoinLines(<<Fence \o <<"b","a","s","h">>, <<"l","s"," ","-","l","a">>, Fence>>),
      JoinLines(<<Fence, <<"l","s"," ","-","l","a">>, <<"c","a","t"," ","x">>, Fence>>),
      JoinLines(<<Fence, <<"l","s"," ","-","l","a">>, Fence, <<"T","h","i","s"," ","l","i","s","t","s"," ","f","i","l","e","s">>>>),
      JoinLines(<<Fence, <<"l","s"," ","-","l","a">>, <<"c","a","t"," ","x">>>>),
      JoinLines(<<Fence, <<"l","s"," ","-","l","a">>>>),
      Fence \o <<"l","s"," ","-","l","a">> \o Fence,
      JoinLines(<<Fence, Fence>>),
      PrefixText(6) \o JoinLines(<<Fence, <<"l","s"," ","-","l","a">>, Fence>>),
      JoinLines(<<Fence, <<"$", " ">> \o <<"l","s"," ","-","l","a">>, Fence>>) }

Suggestions == NestedSuggestions \cup FencedSuggestions

ApplyExtract ==
    /\ \E suggestion \in Suggestions :
          /\ fn_in' = [response |-> suggestion]
          /\ fn_out' = [command |-> extract_command(suggestion)]
    /\ UNCHANGED <<config, web, around, pc, local, audit_log, filesys, calls, logged, spawned,
                   nreq, processed>>

SpecExtract == InitValidate /\ [][ApplyExtract]_vars

(***************************************************************************)
(* AppBridge: submit_command and submit_batch, called by several programs  *)
(* and threads that share the trigger directory.                           *)
(***************************************************************************)
MaxSubmits == 2
MaxClock == 2

app == <<"a","p","p">>
web_api == <<"w","e","b","_","a","p","i">>
normal == <<"n","o","r","m","a","l">>
high == <<"h","i","g","h">>

BridgeSources == {app, web_api}
Priorities == {normal, high}
BridgeCommands ==
    { <<"l","i","s","t"," ","f","i","l","e","s">>,
      <<"r","m"," ","-","r","f"," ","/">> }

\* datetime.now().strftime("%Y%m%d_%H%M%S_%f"): one text per microsecond
Timestamp(t) == <<ToString(t)>>

\* f"{source}_{priority}_{timestamp}.task"
TaskName(source, priority, t) ==
    source \o <<"_">> \o priority \o <<"_">> \o Timestamp(t) \o <<".task">>

\* open(task_file, 'w') and f.write(command): the file is created, or
\* truncated and written anew
WriteTask(files, name, text) ==
    [n \in DOMAIN files \cup {name} |-> IF n = name THEN text ELSE files[n]]

\* AppBridge.submit_command
submit_command(command, source, priority) ==
    /\ Len(submitted) < MaxSubmits
    /\ LET task_file == TaskName(source, priority, now)
       IN  /\ tasks' = WriteTask(tasks, task_file, command)
           /\ submitted' = Append(submitted, [name |-> task_file, text |-> command])

\* time passes
Tick ==
    /\ now < MaxClock
    /\ now' = now + 1
    /\ UNCHANGED <<orchestrator, api, tasks, submitted, request, response, batch>>

\* a program calls submit_command
BridgeSubmit ==
    /\ \E command \in BridgeCommands, source \in BridgeSources,
          priority \in Priorities :
          submit_command(command, source, priority)
    /\ UNCHANGED <<orchestrator, api, now, request, response, batch>>

\* f"{source}_batch{i}"
BatchSource(source, i) ==
    source \o <<"_","b","a","t","c","h">> \o <<ToString(i)>>

BatchLists ==
    { <<c1, c2>> : c1 \in BridgeCommands, c2 \in BridgeCommands }

\* submit_batch is called
BatchStart ==
    /\ ~batch.active
    /\ \E commands \in BatchLists, source \in BridgeSources :
          batch' = [active |-> TRUE, source |-> source, commands |-> commands,
                    i |-> 0, at |-> "submit"]
    /\ UNCHANGED <<orchestrator, api, now, tasks, submitted, request, response>>

\* the loop body: submit_command for item i
BatchSubmit ==
    /\ batch.active
    /\ batch.at = "submit"
    /\ submit_command(batch.commands[batch.i + 1],
                      BatchSource(batch.source, batch.i), normal)
    /\ batch' = [batch EXCEPT !.at = "sleep"]
    /\ UNCHANGED <<orchestrator, api, now, request, response>>

\* time.sleep(0.1), and the next item or the return
BatchSleep ==
    /\ batch.active
    /\ batch.at = "sleep"
    /\ now < MaxClock
    /\ now' = now + 1
    /\ batch' = IF batch.i + 1 = Len(batch.commands) THEN NoBatch
                ELSE [batch EXCEPT !.i = @ + 1, !.at = "submit"]
    /\ UNCHANGED <<orchestrator, api, tasks, submitted, request, response>>

InitWeb ==
    /\ InitOrchestrator
    /\ execution_mode = "prompt"
    /\ validator = DefaultPolicy
    /\ ~model_loaded
    /\ run_mode = "watch"
    /\ InitApi
    /\ InitBridge
    /\ InitAround

NextBridge ==
    \/ Tick
    \/ BridgeSubmit
    \/ BatchStart
    \/ BatchSubmit
    \/ BatchSleep

SpecBridge == InitWeb /\ [][NextBridge]_vars

(***************************************************************************)
(* The web API: require_api_key, /health and /api/v1/execute.  web_api.py  *)
(* and web_api_basic.py have the same text for the three.                  *)
(***************************************************************************)
\* Python's "not provided_key": None or the empty text
Falsy(p) == ~p.present \/ p.value = <<>>

\* the header's key, or the query parameter's when the header gives none
ProvidedKey(header, query) == IF Falsy(header) THEN query ELSE header

\* require_api_key with the comparison to API_KEY left out
RequireAnyKey(require_auth, api_key, header, query) ==
    ~require_auth \/ ~Falsy(ProvidedKey(header, query))

\* require_api_key: whether the wrapped handler is called
require_api_key(require_auth, api_key, header, query) ==
    \/ ~require_auth
    \/ LET provided_key == ProvidedKey(header, query)
       IN  ~(Falsy(provided_key) \/ provided_key.value # api_key)

Keys == {Absent, Supplied(<<>>), Supplied(GoodKey), Supplied(BadKey)}
Bodies == {NoCommand} \cup {WithCommand(command) : command \in BridgeCommands}

\* GET /health
WebHealth ==
    /\ \E header \in {Absent, Supplied(BadKey)} :
          request' = Request("/health", header, Absent, NoCommand)
    /\ response' = Response(200, "healthy", <<>>, TRUE)
    /\ UNCHANGED <<orchestrator, api, now, tasks, submitted, batch>>

\* POST /api/v1/execute, with the default source and priority
WebExecute ==
    /\ \E header \in Keys, query \in Keys, data \in Bodies :
          /\ request' = Request("/api/v1/execute", header, query, data)
          /\ IF ~require_api_key(REQUIRE_AUTH, API_KEY, header, query)
             THEN /\ response' = Response(401, "Unauthorized", <<>>, FALSE)
                  /\ UNCHANGED <<tasks, submitted>>
             ELSE IF ~data.has_command
             THEN /\ response' = Response(400, "Bad Request", <<>>, TRUE)
                  /\ UNCHANGED <<tasks, submitted>>
             ELSE /\ submit_command(data.command, web_api, normal)
                  /\ response' = Response(200, "success",
                                          TaskName(web_api, normal, now), TRUE)
    /\ UNCHANGED <<orchestrator, api, now, batch>>

NextWeb ==
    \/ Tick
    \/ WebHealth
    \/ WebExecute

SpecWeb == InitWeb /\ [][NextWeb]_vars

(***************************************************************************)
(* The configuration file and its reload.  The orchestrator reads the file *)
(* once, in __init__; checkAndReload is the reload the specification       *)
(* describes, acting on the fields process_request reads.                  *)
(***************************************************************************)
\* what a configuration file can hold
ConfigFiles == [execution_mode : Modes, validator : Policies]

\* an operator saves a different configuration file
EditConfig ==
    /\ \E file \in ConfigFiles :
           /\ file # config_file
           /\ config_file' = file
    /\ UNCHANGED <<orchestrator_state, web, view, waited>>

\* the file has changed: the policy and the mode are built from it and
\* swapped in together; requests in flight are not waited for
checkAndReload ==
    /\ config_file # [execution_mode |-> execution_mode, validator |-> validator]
    /\ execution_mode' = config_file.execution_mode
    /\ validator' = config_file.validator
    /\ UNCHANGED <<model_loaded, run_mode, direct, pc, local, audit_log, filesys,
                   calls, logged, spawned, nreq, processed, web, around>>

\* the orchestrator in CLI mode with the mock model, and the reload
InitReload ==
    /\ Init
    /\ run_mode = "cli"
    /\ ~model_loaded

NextReload ==
    \/ CliRequest
    \/ Infer("cli")
    \/ Validate("cli")
    \/ Approve("cli")
    \/ Execute("cli")
    \/ LogEvent("cli")
    \/ CliReturn
    \/ EditConfig
    \/ checkAndReload

SpecReload == InitReload /\ [][NextReload]_vars

(***************************************************************************)
(* AppBridge.wait_for_result, polling beside the trigger-file handler.     *)
(***************************************************************************)
\* 'Success: True' in result_text or 'Return code: 0' in result_text
ParsedSuccess(content) ==
    \E i \in 1..Len(content) :
        \/ "Success" \in DOMAIN content[i] /\ content[i].Success = TRUE
        \/ "ReturnCode" \in DOMAIN content[i] /\ content[i].ReturnCode = 0

\* one round of the polling loop that finds the result file: the file is
\* read as it is and the dictionary is returned (a round that does not find
\* the file sleeps and changes nothing)
wait_for_result ==
    /\ \E b \in Bases :
           /\ results[b].exists
           /\ waited' = [returned |-> TRUE,
                         success |-> ParsedSuccess(results[b].content),
                         output |-> results[b].content]
    /\ UNCHANGED <<orchestrator_state, web, config_file, view>>

\* the orchestrator watching the directory in prompt mode with the mock
\* model and no whitelist, and a program that waits for results
InitPoll ==
    /\ Init
    /\ run_mode = "watch"
    /\ execution_mode = "prompt"
    /\ validator = OpenPolicy
    /\ ~model_loaded

NextPoll ==
    \/ CreateFile
    \/ Dispatch
    \/ HandlerRead
    \/ Infer("watch")
    \/ Validate("watch")
    \/ Approve("watch")
    \/ Execute("watch")
    \/ LogEvent("watch")
    \/ HandlerReturn
    \/ HandlerOpen
    \/ HandlerWrite
    \/ HandlerRemove
    \/ wait_for_result

SpecPoll == InitPoll /\ [][NextPoll]_vars

(***************************************************************************)
(* Two orchestrators, the CLI loop and the directory watcher, started on   *)
(* the same audit database: process_request runs in both at once and each  *)
(* log_event is its own sqlite3 connection and transaction.                *)
(***************************************************************************)
InitConcurrent ==
    /\ execution_mode = "prompt"
    /\ validator = DefaultPolicy
    /\ model_loaded = FALSE
    /\ run_mode = both
    /\ InitRequests
    /\ InitBridge
    /\ InitAround
    /\ REQUIRE_AUTH = TRUE
    /\ API_KEY = GoodKey

SpecConcurrent == InitConcurrent /\ [][Next]_vars

(***************************************************************************)
(* audit_query.py: AuditQuery, the tool that reads the audit database.     *)
(***************************************************************************)
\* the LIMIT values the tool is asked for
Limits == {1, 20}

\* ORDER BY timestamp DESC: the newest row first
NewestFirst(rows) == [i \in 1..Len(rows) |-> rows[Len(rows) + 1 - i]]

\* LIMIT n
Limit(rows, n) == IF Len(rows) <= n THEN rows ELSE SubSeq(rows, 1, n)

\* the WHERE clause of executed_commands
WasExecuted(row) == row.executed = PyBool(TRUE)

\* the WHERE clause of rejected_commands
WasRejected(row) ==
    \/ row.approved = PyBool(FALSE)
    \/ row.approved = PyBool(TRUE) /\ row.executed = PyBool(FALSE)

\* the columns recent_events selects
EventColumns(row) ==
    [event_type |-> row.event_type, trigger_source |-> row.trigger_source,
     suggested_command |-> row.suggested_command, approved |-> row.approved,
     executed |-> row.executed]

\* the columns executed_commands and rejected_commands select
CommandColumns(row) ==
    [trigger_source |-> row.trigger_source, deepseek_input |-> row.deepseek_input,
     suggested_command |-> row.suggested_command,
     execution_result |-> row.execution_result]

recent_events(log, limit) ==
    LET rows == Limit(NewestFirst(log), limit)
    IN  [i \in 1..Len(rows) |-> EventColumns(rows[i])]

executed_commands(log, limit) ==
    LET rows == Limit(NewestFirst(SelectSeq(log, WasExecuted)), limit)
    IN  [i \in 1..Len(rows) |-> CommandColumns(rows[i])]

rejected_commands(log, limit) ==
    LET rows == Limit(NewestFirst(SelectSeq(log, WasRejected)), limit)
    IN  [i \in 1..Len(rows) |-> CommandColumns(rows[i])]

\* the three counts statistics starts with
statistics(log) ==
    <<[total_events |-> Len(log),
       executed_commands |-> Len(SelectSeq(log, WasExecuted)),
       rejected_commands |->
           Len(SelectSeq(log, LAMBDA row : row.approved = PyBool(FALSE)))]>>

\* AuditQuery.query: connect, execute the SELECT, fetch, close; the database
\* is not written
QueryRecent ==
    /\ \E limit \in Limits :
           view' = [op |-> "recent_events", rows |-> recent_events(audit_log, limit)]
    /\ UNCHANGED <<orchestrator_state, web, config_file, waited>>

QueryExecuted ==
    /\ \E limit \in Limits :
           view' = [op |-> "executed_commands", rows |-> executed_commands(audit_log, limit)]
    /\ UNCHANGED <<orchestrator_state, web, config_file, waited>>

QueryRejected ==
    /\ \E limit \in Limits :
           view' = [op |-> "rejected_commands", rows |-> rejected_commands(audit_log, limit)]
    /\ UNCHANGED <<orchestrator_state, web, config_file, waited>>

QueryStatistics ==
    /\ view' = [op |-> "statistics", rows |-> statistics(audit_log)]
    /\ UNCHANGED <<orchestrator_state, web, config_file, waited>>

\* the orchestrator in CLI mode under the default policy, in any execution
\* mode, with an operator who queries the database
InitAudit ==
    /\ Init
    /\ run_mode = "cli"
    /\ validator = DefaultPolicy
    /\ model_loaded

NextAudit ==
    \/ CliRequest
    \/ Infer("cli")
    \/ Validate("cli")
    \/ Approve("cli")
    \/ Execute("cli")
    \/ LogEvent("cli")
    \/ CliReturn
    \/ QueryRecent
    \/ QueryExecuted
    \/ QueryRejected
    \/ QueryStatistics

SpecAudit == InitAudit /\ [][NextAudit]_vars

(***************************************************************************)
(* Properties.                                                             *)
(***************************************************************************)
Range(seq) == {seq[i] : i \in 1..Len(seq)}

ApprovalCalls(c) ==
    Cardinality({i \in 1..Len(calls[c]) :
        calls[c][i] \in {"approval:y", "approval:n", "approval:raise"}})

\* C1: the executor is called only after validate accepted the command and
\* the approval gate, if it was asked, granted it; a command that validate
\* rejected reaches neither the gate nor the executor, and a command the gate
\* denied does not reach the executor.
C1_ExecuteOnlyAfterValidationAndApproval ==
    \A c \in Ctx :
        /\ "execute" \in Range(calls[c]) =>
              calls[c] \in { <<"validate:ok", "execute">>,
                             <<"validate:ok", "approval:y", "execute">> }
        /\ "validate:reject" \in Range(calls[c]) => calls[c] = <<"validate:reject">>
        /\ ApprovalCalls(c) > 0 => calls[c][1] = "validate:ok"

C1_Witness ==
    \E c \in Ctx : calls[c] = <<"validate:ok", "approval:y", "execute">>

\* C2: validate rejects every command that contains a dangerous pattern,
\* under every policy, one whose whitelist holds the base command included.
C2_DangerousAlwaysRejected ==
    fn_in # None =>
        ((\E i \in 1..Len(dangerous_patterns) :
              Contains(fn_in.command, dangerous_patterns[i]))
         => ~fn_out.ok)

C2_Witness ==
    /\ fn_in # None
    /\ Contains(fn_in.command, <<"c","h","m","o","d"," ","7","7","7">>)
    /\ FirstToken(fn_in.command) \in fn_in.v.whitelist
    /\ fn_in.v.blacklist = {}
    /\ ~fn_out.ok

\* C3: when process_request hands control back, its call has inserted exactly
\* one audit row.
C3_ExactlyOneRecordPerCall ==
    \A c \in Ctx : pc[c] = "return" => logged[c] = 1

\* C4: every audit row with executed = true has approved = true and holds a
\* serialized result.
C4_ExecutedImpliesApproved ==
    \A i \in 1..Len(audit_log) :
        audit_log[i].executed = "True" =>
            /\ audit_log[i].approved = "True"
            /\ audit_log[i].execution_result # None

C4_Witness ==
    \E i \in 1..Len(audit_log) : audit_log[i].executed = "True"

\* C5: for a command that passed validation the approval gate is invoked
\* exactly once if the mode is prompt or the base command is in
\* require_approval_for, and not at all otherwise; then the command goes on
\* as approved.
C5_GateInvokedIffRequired ==
    \A c \in Ctx :
        (calls[c] # <<>> /\ calls[c][1] = "validate:ok") =>
            LET required ==
                    \/ execution_mode = "prompt"
                    \/ FirstToken(local[c].suggested_command)
                           \in validator.require_approval
            IN  IF required
                THEN ApprovalCalls(c) = (IF pc[c] = "approval" THEN 0 ELSE 1)
                ELSE /\ ApprovalCalls(c) = 0
                     /\ pc[c] # "approval"
                     /\ local[c].pending # None =>
                            local[c].pending.approved = "True"

C5_Witness ==
    \E c \in Ctx :
        /\ execution_mode # "prompt"
        /\ FirstToken(local[c].suggested_command) \in validator.require_approval
        /\ calls[c] = <<"validate:ok", "approval:y", "execute">>

\* C6: when the gate answered no, the request ends with a user_rejected row
\* with approved = false and executed = false, the executor was not called,
\* and process_request returns None.
C6_DenialIsAudited ==
    \A c \in Ctx :
        (pc[c] = "return" /\ "approval:n" \in Range(calls[c])) =>
            /\ logged[c] = 1
            /\ audit_log # <<>>
            /\ \E i \in 1..Len(audit_log) :
                  /\ audit_log[i] = local[c].pending
                  /\ audit_log[i].event_type = "user_rejected"
                  /\ audit_log[i].approved = "False"
                  /\ audit_log[i].executed = "False"
            /\ "execute" \notin Range(calls[c])
            /\ ~local[c].raised
            /\ local[c].result = None

\* C7: in audit_only mode every request whose command passed validation ends
\* with an audit_only row with approved = true and executed = false, and the
\* executor is never called.
C7_AuditOnlyIsAudited ==
    execution_mode = "audit_only" =>
        \A c \in Ctx :
            /\ "execute" \notin Range(calls[c])
            /\ (pc[c] = "return" /\ "validate:ok" \in Range(calls[c])) =>
                  /\ logged[c] = 1
                  /\ \E i \in 1..Len(audit_log) :
                        /\ audit_log[i] = local[c].pending
                        /\ audit_log[i].event_type = "audit_only"
                        /\ audit_log[i].approved = "True"
                        /\ audit_log[i].executed = "False"

\* C8: in dry_run mode no child process is ever spawned, and every call of
\* the executor returns success, return code 0, the command after the
\* "[DRY RUN] " tag as stdout, an empty stderr and an elapsed time of 0.
C8_DryRunNeverSpawns ==
    execution_mode = "dry_run" =>
        /\ spawned = 0
        /\ \A c \in Ctx :
              "execute" \in Range(calls[c]) =>
                  local[c].pending.execution_result =
                      [json |->
                          [success |-> TRUE,
                           stdout |-> <<"[","D","R","Y"," ","R","U","N","]"," ">>
                                          \o local[c].suggested_command,
                           stderr |-> <<>>,
                           return_code |-> 0,
                           execution_time |-> 0]]

C8_Witness ==
    /\ execution_mode = "dry_run"
    /\ \E c \in Ctx : "execute" \in Range(calls[c]) /\ pc[c] = "return"

\* C9: every trigger file the handler has removed has its result file, closed
\* after a complete, non-empty report was written.
C9_ConsumedHasCompleteResult ==
    \A f \in consumed :
        /\ results[f.base].exists
        /\ results[f.base].closed
        /\ results[f.base].content # <<>>

\* C10: a result file that has been written and closed never changes.
C10_ResultImmutable ==
    [][\A b \in Bases : results[b].closed => results'[b] = results[b]]_vars

\* C11: for each trigger file, process_request is entered at most once per
\* creation of the file, and the request made for a file carries the source
\* "file:" followed by the file's name; a file whose removal failed is not
\* processed again.
C11_AtMostOncePerCreatedFile ==
    /\ \A f \in Files : processed[f] <= created[f]
    /\ pc["watch"] \notin {"idle", "h_read"} =>
           local["watch"].trigger_source =
               <<"file:", local["watch"].file.base, local["watch"].file.suffix>>

\* a trigger file was processed to the end, its removal failed, and it stays
\* in the directory with nothing pending
C11_Witness ==
    \E f \in Files :
        /\ created[f] = 1
        /\ processed[f] = 1
        /\ trig[f].exists
        /\ f \notin consumed
        /\ results[f.base].closed
        /\ pc["watch"] = "idle"
        /\ events = <<>>

\* C12: a request whose inference backend failed is treated as having no
\* command: it goes to no validation, approval or execution, and the only
\* audit record it prepares has event type no_command_extracted.
C12_InferenceFailureIsNoCommand ==
    \A c \in Ctx :
        local[c].infer_failed =>
            /\ calls[c] = <<>>
            /\ pc[c] \notin {"validate", "approval", "execute"}
            /\ local[c].pending # None =>
                   local[c].pending.event_type = "no_command_extracted"

\* the executor reported a launch failure or a timeout for the request of c
ExecutorFailed(c) ==
    /\ local[c].pending # None
    /\ local[c].pending.event_type = "command_executed"
    /\ local[c].pending.execution_result.json.return_code = -1

\* C13: a request in which the approval gate raised, or the executor reported
\* a failure, leaves process_request without an exception and with its one
\* audit record written, the record's execution_result carrying the failure.
C13_GateAndExecutorErrorsAreCaptured ==
    \A c \in Ctx :
        (pc[c] = "return" /\ ("approval:raise" \in Range(calls[c]) \/ ExecutorFailed(c))) =>
            /\ ~local[c].raised
            /\ logged[c] = 1
            /\ audit_log # <<>>
            /\ audit_log[Len(audit_log)].execution_result # None

\* C14: a failure to persist the audit record does not leave log_event:
\* process_request returns without an exception, and the result of an
\* executed command is still returned to the caller.
C14_AuditFailureDoesNotPropagate ==
    \A c \in Ctx :
        local[c].log_failed =>
            /\ ~local[c].raised
            /\ "execute" \in Range(calls[c]) => local[c].result # None

\* C15: execute returns a result for whatever the child comes to.  A launch
\* failure and a timeout give success false, return code -1 and a stderr
\* text that describes the failure; a timeout reports the configured timeout
\* as the elapsed time; a child that ran to its end gives success exactly
\* when its return code is 0.
C15_ExecuteNeverRaises ==
    (fn_in # None /\ ~fn_in.dry_run) =>
        LET child == fn_in.child
            r == fn_out
        IN  /\ DOMAIN r = {"success", "stdout", "stderr", "return_code",
                           "execution_time"}
            /\ child.kind \in {"timeout", "error"} =>
                   /\ r.success = FALSE
                   /\ r.return_code = -1
                   /\ r.stderr # <<>>
            /\ child.kind = "error" => r.stderr = child.message
            /\ child.kind = "timeout" =>
                   /\ r.execution_time = fn_in.timeout
                   /\ Contains(r.stderr, <<"t","i","m","e","d"," ","o","u","t">>)
            /\ child.kind = "exit" =>
                   /\ r.success = (child.returncode = 0)
                   /\ r.return_code = child.returncode

\* the executor with timeout 1 ran into the timeout
C15_Witness ==
    /\ fn_in # None
    /\ ~fn_in.dry_run
    /\ fn_in.child.kind = "timeout"
    /\ fn_in.timeout = 1
    /\ fn_out.success = FALSE
    /\ fn_out.execution_time = 1

\* C16: a command that contains a dangerous pattern is rejected with the
\* reason naming the dangerous pattern, also when it matches a blacklist
\* entry or its base command is outside a non-empty whitelist.
C16_DangerousCheckedFirst ==
    (fn_in # None /\ ContainsDangerous(fn_in.command)) =>
        /\ ~fn_out.ok
        /\ fn_out.why = "dangerous pattern"

\* C17: an authenticated POST to /api/v1/execute whose command is dangerous
\* is answered with status 400, and no task file holds its command.
C17_DangerousCommandBlocked ==
    (/\ request.endpoint = "/api/v1/execute"
     /\ request.header = Supplied(API_KEY)
     /\ API_KEY # <<>>
     /\ request.data.has_command
     /\ ContainsDangerous(request.data.command)) =>
        /\ response.status = 400
        /\ response.task_file = <<>>
        /\ \A name \in DOMAIN tasks : tasks[name] # request.data.command

\* the key of a request when the query parameter counts only for an absent
\* header
HeaderOrQuery(r) == IF r.header.present THEN r.header ELSE r.query

\* C18 with the query parameter consulted only when the header is absent:
\* the handler has run only if authentication is off or that key is the
\* configured one; otherwise the answer is 401 with the task files
\* unchanged; /health answers 200 with status healthy.
C18_KeyRequiredHeaderAbsent ==
    [][ LET passes == \/ ~REQUIRE_AUTH
                      \/ /\ HeaderOrQuery(request').present
                         /\ HeaderOrQuery(request').value = API_KEY
        IN  /\ request'.endpoint = "/api/v1/execute" =>
                 /\ response'.ran => passes
                 /\ ~passes =>
                        /\ response'.status = 401
                        /\ ~response'.ran
                        /\ response'.task_file = <<>>
                        /\ tasks' = tasks
            /\ request'.endpoint = "/health" =>
                 /\ response'.status = 200
                 /\ response'.body = "healthy" ]_vars

\* the key a request supplies: the X-API-Key header's, or the api_key query
\* parameter's when the header is absent or gives no key
SuppliedKey(r) ==
    IF r.header.present /\ r.header.value # <<>> THEN r.header ELSE r.query

\* whether a request may pass: authentication is off, or it supplies a key
\* and the key is the configured one
MayPass(r) ==
    \/ ~REQUIRE_AUTH
    \/ /\ SuppliedKey(r).present
       /\ SuppliedKey(r).value # <<>>
       /\ SuppliedKey(r).value = API_KEY

\* C18, with an empty header counted as absent and an empty key as no key:
\* in every step, the handler behind require_api_key has run for the last
\* request only if that request may pass; a request that may not pass is
\* answered 401 with the task files unchanged; /health answers 200 with
\* status healthy whatever key it carries.
C18_KeyRequired ==
    [][ /\ request'.endpoint = "/api/v1/execute" =>
             /\ response'.ran => MayPass(request')
             /\ ~MayPass(request') =>
                    /\ response'.status = 401
                    /\ ~response'.ran
                    /\ response'.task_file = <<>>
                    /\ tasks' = tasks
        /\ request'.endpoint = "/health" =>
             /\ response'.status = 200
             /\ response'.body = "healthy" ]_vars

\* the header carries a wrong key and the query parameter the right one: the
\* header counts, the answer is 401 and there is no task file
C18_Witness ==
    /\ REQUIRE_AUTH
    /\ request.endpoint = "/api/v1/execute"
    /\ request.header = Supplied(BadKey)
    /\ request.query = Supplied(API_KEY)
    /\ request.data.has_command
    /\ response.status = 401
    /\ DOMAIN tasks = {}

\* C20: any two submit_command calls wrote task files of distinct names.
C20_DistinctTaskNames ==
    \A i, j \in 1..Len(submitted) :
        i # j => submitted[i].name # submitted[j].name

\* C19: while a request is parked at the approval gate, a trigger file whose
\* creation event is waiting can be taken up by the handler.
C19_ParkedRequestDelaysNoOther ==
    (/\ pc["watch"] = "approval"
     /\ events # <<>>
     /\ Head(events).suffix \in TriggerSuffixes) => ENABLED Dispatch

\* C21: the audit log is append-only.  No operation of the orchestrator or of
\* the query tool removes a row or changes a row that was written: every step
\* leaves the rows already in the log where they were, as they were, and at
\* most adds one row after them.
C21_AuditLogAppendOnly ==
    [][/\ Len(audit_log') \in {Len(audit_log), Len(audit_log) + 1}
       /\ \A i \in 1..Len(audit_log) : audit_log'[i] = audit_log[i]]_vars

\* two rows are in the log and the query tool has read them
C21_Witness ==
    /\ Len(audit_log) = 2
    /\ audit_log[1].event_type # audit_log[2].event_type
    /\ view.op = "rejected_commands"
    /\ Len(view.rows) = 1

\* C22: a request in flight is decided under one snapshot of the
\* configuration.  The mode process_request reads for the dry-run and
\* audit-only decision is the mode it read for the approval decision, with
\* checkAndReload free to swap the configuration at any moment.  (The policy
\* is read for validation and for the approval decision in one step of this
\* model, so only the mode can differ here.)
C22_OneSnapshotPerRequest ==
    \A c \in Ctx :
        local[c].mode_at_execute # "" =>
            local[c].mode_at_execute = local[c].mode_at_approval

\* the request ended as a rejection: validation failed or approval was denied
Rejected(l) ==
    /\ l.pending # None
    /\ l.pending.event_type \in {"validation_failed", "user_rejected"}

\* C23: the caller receives the execution result or an explicit rejection
\* reason, never a fault.  When process_request hands control back, no
\* exception is leaving it, and for a rejected request the value it returns
\* is not the bare None; the result file written for a rejected request of
\* the queue holds more than the notice that is the same for every request
\* that was not executed.
C23_ResultOrRejectionReason ==
    /\ \A c \in Ctx :
           pc[c] = "return" =>
               /\ ~local[c].raised
               /\ Rejected(local[c]) => local[c].result # None
    /\ (pc["watch"] = "h_remove" /\ Rejected(local["watch"])) =>
           results[local["watch"].file.base].content # ResultText(None)

\* C24: validate accepts exactly the commands that are not empty or
\* whitespace-only, contain no dangerous pattern, contain no blacklist entry
\* as a substring, and whose base command is in the whitelist when the
\* whitelist is not empty; an empty or whitespace-only command is rejected
\* with the empty-command reason.
C24_ValidateAcceptsExactly ==
    fn_in # None =>
        LET command == fn_in.command
            v == fn_in.v
            empty == \A i \in 1..Len(command) : command[i] \in Whitespace
        IN  /\ fn_out.ok <=>
                  /\ ~empty
                  /\ ~ContainsDangerous(command)
                  /\ \A b \in v.blacklist : ~Contains(command, b)
                  /\ v.whitelist = {} \/ FirstToken(command) \in v.whitelist
            /\ empty => fn_out.why = "Empty command"

\* a command of a whitelisted base command that holds a blacklist entry
\* inside a word and no dangerous pattern has been rejected
C24_Witness ==
    /\ fn_in # None
    /\ fn_in.command = <<"e","c","h","o"," ","a","d","d">>
    /\ fn_in.v.whitelist = {echo}
    /\ fn_in.v.blacklist = {<<"d","d">>}
    /\ ~fn_out.ok
    /\ fn_out.why = "blacklisted pattern"

\* the newest audit row is the row of the request the handler is processing
OwnRowWritten ==
    /\ logged["watch"] = 1
    /\ audit_log # <<>>
    /\ LET row == audit_log[Len(audit_log)]
       IN  /\ row.trigger_source = FileSource(local["watch"].file)
           /\ row.event_type = local["watch"].pending.event_type

C26_ObservedFileReachesTerminal ==
    (run_mode = "watch" /\ pc["watch"] = "idle" /\ events = <<>>) =>
        \A f \in Files :
            (f.suffix \in TriggerSuffixes /\ created[f] >= 1) =>
                /\ ~trig[f].exists
                /\ results[f.base].exists /\ results[f.base].closed
                /\ \E i \in 1..Len(audit_log) :
                       audit_log[i].trigger_source = FileSource(f)

\* a whole report as on_created writes it: the three lines of a result and
\* the errors if any, or the notice of a request that was not executed
CompleteReport(content) ==
    \/ content = ResultText(None)
    \/ /\ Len(content) \in {3, 4}
       /\ "Success" \in DOMAIN content[1]
       /\ "ReturnCode" \in DOMAIN content[2]
       /\ "Output" \in DOMAIN content[3]
       /\ Len(content) = 4 => "Errors" \in DOMAIN content[4]

\* C27: wait_for_result never returns a result file the handler has not
\* finished writing.  Whenever it has returned, the output is a whole report
\* and, for a report of an executed request, the success flag it returns is
\* the success flag the report was written from.
C27_PollReturnsCompleteResult ==
    waited.returned =>
        /\ CompleteReport(waited.output)
        /\ (waited.output # ResultText(None)) =>
               waited.success = waited.output[1].Success

\* the place of the closing fence line among the lines of a fenced text: the
\* first line after the opening one that starts with the marker, or one past
\* the last line when the block is not closed
ClosingFence(lines) ==
    IF \E i \in 2..Len(lines) : StartsWith(Strip(lines[i]), Fence)
    THEN CHOOSE i \in 2..Len(lines) :
             /\ StartsWith(Strip(lines[i]), Fence)
             /\ \A j \in 2..(i - 1) : ~StartsWith(Strip(lines[j]), Fence)
    ELSE Len(lines) + 1

\* the interior lines of a fenced text, joined
Interior(text) ==
    LET lines == SplitLines(text)
    IN  JoinLines(SubSeq(lines, 2, ClosingFence(lines) - 1))

\* C28: for a suggestion that starts with the triple-backquote marker once
\* its prefixes are stripped, extract_command returns the interior lines
\* between the opening and the closing fence line joined by newlines: no
\* fence line is in the result and no interior line is lost.
C28_FencedBlockInterior ==
    (fn_in # None /\ "response" \in DOMAIN fn_in) =>
        LET stripped == StripPrefixes(Strip(fn_in.response), 1)
        IN  StartsWith(stripped, Fence) =>
                /\ fn_out.command = Strip(Interior(stripped))
                /\ ~Contains(fn_out.command, Fence)

\* a known suggestion prefix starts the text
BeginsWithPrefix(text) ==
    \E i \in 1..Len(prefixes_to_remove) : StartsWith(text, prefixes_to_remove[i])

\* C29: extract_command is idempotent on its own output.  The command it
\* returns begins with no known suggestion prefix, and extract_command
\* applied to that command returns it unchanged, in whatever order the
\* prefixes are nested in the suggestion.
C29_ExtractIdempotent ==
    (fn_in # None /\ "response" \in DOMAIN fn_in) =>
        /\ ~BeginsWithPrefix(fn_out.command)
        /\ extract_command(fn_out.command) = fn_out.command

\* the stages of process_request before its audit row is inserted
BeforeLog == {"infer", "validate", "approval", "execute", "log"}

\* C30: with process_request running in several contexts at once no audit
\* append is lost or mixed.  Every invocation that has passed its log_event
\* has its own row: the log holds one row for each invocation started except
\* those still on their way to log_event, and a context that is handing
\* control back finds a row in the log with the trigger source, the input
\* and the suggestion of its own request.
C30_OneRecordPerConcurrentInvocation ==
    /\ Len(audit_log) = nreq - Cardinality({c \in Ctx : pc[c] \in BeforeLog})
    /\ \A c \in Ctx :
           pc[c] = "return" =>
               \E i \in 1..Len(audit_log) :
                   /\ audit_log[i].trigger_source = local[c].trigger_source
                   /\ audit_log[i].deepseek_input = local[c].user_input
                   /\ audit_log[i].deepseek_output = local[c].deepseek_response

====
